---- MODULE Spec2Model ----
(***************************************************************************)
(* Model of pinia-simple-persist: the persistence plugin returned by       *)
(* createPiniaSimplePersist (src/src/plugin.ts), attached to stores of a   *)
(* host (pinia) that queues change notifications and runs timers.          *)
(***************************************************************************)
EXTENDS Integers, Sequences, FiniteSets, TLC

\* ------------------------------------------------------------------ bounds
MaxValue == 2          \* store field `count` ranges over 0..MaxValue
MaxTime == 4           \* the clock of the timer host runs from 0 to MaxTime
MaxEvents == 3         \* cap on delivered change notifications
MaxDisposals == 2      \* cap on calls of store.$dispose()
DebounceMs == 2        \* the non-zero debounce delay that is configured
MaxProp == 1        \* property values of mapped objects are 0 .. MaxProp

\* --------------------------------------------------------- value universe
Stores == {"a", "b"}
Values == 0..MaxValue
InitialCount == 0

Absent == "<absent>"          \* property not present on the options object
Undefined == "<undefined>"    \* property present, value undefined
AbsentN == -1                 \* same two markers for the numeric option
UndefinedN == -2
Null == "<null>"              \* getItem result when the key is not stored

NoTimeout == 0                \* `timeout` of makeDebounce while undefined

Snapshots == [count : Values]

\* JSON.stringify of a snapshot {count: v}
JSONstringify(data) == "{\"count\":" \o ToString(data.count) \o "}"

JSONTexts == {JSONstringify(d) : d \in Snapshots}

\* JSON.parse: defined exactly on the texts JSON.stringify produces
JSONparses(str) == str \in JSONTexts

JSONparse(str) == CHOOSE d \in Snapshots : JSONstringify(d) = str

\* error values: thrown Error objects and thrown non-Error values
ErrorObj(msg) == [isError |-> TRUE, message |-> msg]
NonError(msg) == [isError |-> FALSE, message |-> msg]
NoThrow == [isError |-> FALSE, message |-> "<nothing thrown>"]
SyntaxError == ErrorObj("SyntaxError: Unexpected token")

RestoreStateMissing ==
  ErrorObj("A store using pinia-simple-persist must have a $restoreState() method")

SerializeStateMissing ==
  ErrorObj("A store using pinia-simple-persist must have a $serializeState() method")

\* ------------------------------------------------------------ serializers
\* "JSON"     the built-in default {JSON.stringify, JSON.parse}
\* "custom"   tests: serialize = `custom-${JSON.stringify(d)}`,
\*            deserialize = JSON.parse(str.replace('custom-', ''))
\* "throwing" tests: serialize = JSON.stringify, deserialize throws 'string error'
\* "failing"  serialize throws an Error, deserialize = JSON.parse
Serializers == {"JSON", "custom", "throwing", "failing"}

CustomTexts == {"custom-" \o t : t \in JSONTexts}

\* str.replace('custom-', '')
StripCustom(str) ==
  IF str \in CustomTexts
    THEN CHOOSE t \in JSONTexts : "custom-" \o t = str
    ELSE str

serialize(ser, data) ==
  IF ser = "custom" THEN "custom-" \o JSONstringify(data) ELSE JSONstringify(data)

\* does serializer.serialize throw, and what
SerializeThrows_Never(ser) == FALSE

SerializeThrows(ser) == ser = "failing"
SaveError == ErrorObj("serialize failed")

\* [ok, data, error] of serializer.deserialize(str)
deserialize(ser, str) ==
  IF ser = "throwing"
    THEN [ok |-> FALSE, data |-> [count |-> InitialCount], error |-> NonError("string error")]
    ELSE LET text == IF ser = "custom" THEN StripCustom(str) ELSE str
         IN  IF JSONparses(text)
               THEN [ok |-> TRUE, data |-> JSONparse(text), error |-> NoThrow]
               ELSE [ok |-> FALSE, data |-> [count |-> InitialCount], error |-> SyntaxError]

\* ---------------------------------------------------------------- options
Storages == {"localStorage", "mockStorage", "customStorage", "deniedStorage"}

\* "deniedStorage": a storage the browser denies access to; getItem throws
DeniedStorage == "deniedStorage"
GetItemThrows(st) == st = DeniedStorage
SetItemThrows(st) == st = DeniedStorage
StorageError == ErrorObj("SecurityError: access is denied")

\* default makeKey of createPiniaSimplePersist: (id) => `pinia-${id}`;
\* the configured one of the tests: (id) => `app-${id}`
makeKey_DefaultOnly(mk, id) == "pinia-" \o id

makeKey(mk, id) ==
  IF mk \in {Absent, Undefined} THEN "pinia-" \o id ELSE "app-" \o id

Keys == {"pinia-" \o id : id \in Stores} \cup {"app-" \o id : id \in Stores}
          \cup {"custom-key"}

\* globalOptions without any property: createPiniaSimplePersist()
NoGlobalOptions ==
  [storage |-> Absent, serializer |-> Absent, debounce |-> AbsentN,
   beforeRestore |-> Absent, afterRestore |-> Absent,
   onRestoreError |-> Absent, makeKey |-> Absent]

\* options.persist of defineStore: kind is "undefined" (no option), "false",
\* "true" or "object"; the option fields are meaningful for kind "object"
NoPersist ==
  [kind |-> "undefined", key |-> Absent, storage |-> Absent,
   serializer |-> Absent, debounce |-> AbsentN, beforeRestore |-> Absent,
   afterRestore |-> Absent, onRestoreError |-> Absent]

PersistTrue == [NoPersist EXCEPT !.kind = "true"]
PersistEmpty == [NoPersist EXCEPT !.kind = "object"]

\* `!persist`
Falsy_UndefinedOnly(persist) == persist.kind = "undefined"

Falsy(persist) == persist.kind \in {"undefined", "false"}

\* one property of { ...globalOptions, ...persist }: an own property of
\* persist (even when its value is undefined) replaces the global one
Spread_GlobalFirst(globalValue, persist, storeValue, absent) ==
  IF globalValue # absent \/ persist.kind # "object" THEN globalValue ELSE storeValue

Spread(globalValue, persist, storeValue, absent) ==
  IF persist.kind = "object" /\ storeValue # absent THEN storeValue ELSE globalValue

\* destructuring default: applies when the property is missing or undefined
OrDefault(value, absent, undef, default) ==
  IF value \in {absent, undef} THEN default ELSE value

\* the destructuring of lines 34-45
ResolveOptions(g, persist, id) ==
  LET key == Spread(Absent, persist, persist.key, Absent)
  IN [key |-> OrDefault(key, Absent, Undefined, makeKey(g.makeKey, id)),
      derivedKey |-> key \in {Absent, Undefined},
      storage |-> OrDefault(Spread(g.storage, persist, persist.storage, Absent),
                            Absent, Undefined, "localStorage"),
      serializer |-> OrDefault(Spread(g.serializer, persist, persist.serializer, Absent),
                               Absent, Undefined, "JSON"),
      debounce |-> OrDefault(Spread(g.debounce, persist, persist.debounce, AbsentN),
                             AbsentN, UndefinedN, 0),
      beforeRestore |-> OrDefault(Spread(g.beforeRestore, persist, persist.beforeRestore, Absent),
                                  Absent, Undefined, Undefined),
      afterRestore |-> OrDefault(Spread(g.afterRestore, persist, persist.afterRestore, Absent),
                                 Absent, Undefined, Undefined),
      onRestoreError |-> OrDefault(Spread(g.onRestoreError, persist, persist.onRestoreError, Absent),
                                   Absent, Undefined, Undefined)]

\* the closure of a store the plugin returned from at line 32 or threw for
NoConfig ==
  [key |-> Absent, derivedKey |-> FALSE, storage |-> Absent, serializer |-> Absent,
   debounce |-> 0, beforeRestore |-> Undefined, afterRestore |-> Undefined,
   onRestoreError |-> Undefined]

\* ------------------------------------------------------------- attachment
Ev(ev, arg) == [ev |-> ev, arg |-> arg]

\* optional call hook?.(context)
CallHook(name, hook) == IF hook = Undefined THEN <<>> ELSE <<Ev(name, hook)>>

\* a hook the application wrote so that it throws, and what it throws
ThrowingHook == "throwing hook"
HookError == ErrorObj("hook failed")
Throws(hook) == hook = ThrowingHook

\* error instanceof Error ? error : new Error(String(error))
NormalizeError_Raw(error) == error

NormalizeError(error) == IF error.isError THEN error ELSE ErrorObj(error.message)

\* `if (!stored) return` of line 51
Missing_NullOnly(stored) == FALSE

Missing(stored) == stored \in {Null, ""}

\* lines 55-56: the restore capability, then the afterRestore hook
applyRestored_HookFirst(c, data) ==
  CallHook("afterRestore", c.afterRestore) \o <<Ev("$restoreState", JSONstringify(data))>>

applyRestored(c, data) ==
  <<Ev("$restoreState", JSONstringify(data))>> \o CallHook("afterRestore", c.afterRestore)

\* the catch block of lines 57-62
caught_Swallow(c, error) ==
  [trace |-> CallHook("onRestoreError", c.onRestoreError),
   handled |-> IF c.onRestoreError # Undefined THEN <<NormalizeError(error)>> ELSE <<>>,
   thrown |-> NoThrow]

caught(c, error) ==
  IF c.onRestoreError # Undefined
    THEN [trace |-> <<Ev("onRestoreError", c.onRestoreError)>>,
          handled |-> <<NormalizeError(error)>>, thrown |-> NoThrow]
    ELSE [trace |-> <<>>, handled |-> <<>>, thrown |-> error]

\* an error thrown at line 48 or line 50, before the try block
uncaught_Caught(c, error) == caught(c, error)

uncaught(c, error) == [trace |-> <<>>, handled |-> <<>>, thrown |-> error]

\* restoreState of lines 47-64, run on the storage contents `data` and the
\* store field `count`; yields the calls made in order, the new field value,
\* the argument of every onRestoreError call, and what it throws
restoreState(c, data, count) ==
  LET stored == data[c.storage][c.key]
      t0 == CallHook("beforeRestore", c.beforeRestore)
      t1 == t0 \o <<Ev("getItem", c.key)>>
  IN  IF Throws(c.beforeRestore)
        THEN [trace |-> t0 \o uncaught(c, HookError).trace, count |-> count,
              handled |-> uncaught(c, HookError).handled,
              thrown |-> uncaught(c, HookError).thrown]
      ELSE IF GetItemThrows(c.storage)
        THEN [trace |-> t1 \o uncaught(c, StorageError).trace, count |-> count,
              handled |-> uncaught(c, StorageError).handled,
              thrown |-> uncaught(c, StorageError).thrown]
      ELSE IF Missing(stored)
        THEN [trace |-> t1, count |-> count, handled |-> <<>>, thrown |-> NoThrow]
        ELSE
          LET d == deserialize(c.serializer, stored)
              t2 == t1 \o <<Ev("deserialize", stored)>>
          IN  IF ~d.ok
                THEN [trace |-> t2 \o caught(c, d.error).trace, count |-> count,
                      handled |-> caught(c, d.error).handled,
                      thrown |-> caught(c, d.error).thrown]
              ELSE IF Throws(c.afterRestore)
                THEN [trace |-> t2 \o applyRestored(c, d.data)
                                   \o caught(c, HookError).trace,
                      count |-> d.data.count,
                      handled |-> caught(c, HookError).handled,
                      thrown |-> caught(c, HookError).thrown]
                ELSE [trace |-> t2 \o applyRestored(c, d.data), count |-> d.data.count,
                      handled |-> <<>>, thrown |-> NoThrow]

\* --------------------------------------------------------- snapshot mapper
\* makeSimplePersistMapper(state, defaults): `state` maps each field to a
\* ref, to a reactive object or to a plain value.  Objects live on a heap and
\* are referred to by their identity.
PropNames == {"name", "age"}
PropValues == 0 .. MaxProp
NoProp == -1                  \* the object has no such property

\* an object: the value of each property it has
Objs == [PropNames -> PropValues \cup {NoProp}]
EmptyObj == [p \in PropNames |-> NoProp]

\* a value: a number, a reference to an object of the heap, or undefined
Prim(n) == [t |-> "prim", v |-> n]
ObjRef(id) == [t |-> "obj", v |-> id]
UndefinedValue == [t |-> "undefined", v |-> 0]

\* the fields of the tests: count = ref(0), items = ref([...]),
\* user = reactive({...}), plain = {...}
Fields == {"count", "items", "user", "plain"}
FieldNo == [count |-> 1, items |-> 2, user |-> 3, plain |-> 4]
KindOf == [count |-> "ref", items |-> "ref", user |-> "reactive", plain |-> "plain"]

\* identities: the object a field starts with, the object defaults holds
\* for it, and the object the last $restoreState argument held for it
InitSlot(k) == FieldNo[k]
DefaultSlot(k) == 4 + FieldNo[k]
DataSlot(k) == 8 + FieldNo[k]
Slots == 1 .. 12

isRef_HasValue(item) == item.kind \in {"ref", "plain"}

isRef(item) == item.kind = "ref"
isReactive(item) == item.kind = "reactive"

\* a property of the argument `data`: a number or an object, given by its
\* content since the caller made it for this call; or no such property
DataPrim(n) == [t |-> "prim", v |-> n, o |-> EmptyObj]
DataObj(o) == [t |-> "obj", v |-> 0, o |-> o]
NotInData == [t |-> "missing", v |-> 0, o |-> EmptyObj]

\* `key in data`
In_Always(key, data) == TRUE

In(key, data) == data[key] # NotInData

\* Object.assign(target, source): the own properties of source are copied
\* onto target; a source that is not an object has none
ObjectAssign_Replace(target, source) == source

ObjectAssign(target, source) ==
  [p \in PropNames |-> IF source[p] # NoProp THEN source[p] ELSE target[p]]

\* item.value = data[key] of a ref: the number, or the object of data
AssignedValue(key, data) ==
  IF data[key].t = "prim" THEN Prim(data[key].v)
  ELSE IF data[key].t = "obj" THEN ObjRef(DataSlot(key))
  ELSE UndefinedValue

\* objects nothing refers to any more are collected
Reachable(st, id) ==
  \/ \E k \in Fields : st[k].val = ObjRef(id)
  \/ \E k \in Fields : id = DefaultSlot(k)

Collect(st, h) == [id \in Slots |-> IF Reachable(st, id) THEN h[id] ELSE EmptyObj]

\* the effect of $restoreState(data) of lines 74-87 on the cells and on
\* the heap
restoredCells(st, data) ==
  [k \in Fields |->
     IF In(k, data) /\ isRef(st[k])
       THEN [st[k] EXCEPT !.val = AssignedValue(k, data)]
       ELSE st[k]]

restoredHeap(st, h, data) ==
  [id \in Slots |->
     IF \E k \in Fields : /\ In(k, data) /\ isRef(st[k])
                          /\ data[k].t = "obj" /\ id = DataSlot(k)
       THEN data[CHOOSE k \in Fields : id = DataSlot(k)].o
     ELSE IF \E k \in Fields : /\ In(k, data) /\ isReactive(st[k])
                               /\ st[k].val = ObjRef(id)
       THEN ObjectAssign(h[id],
                         data[CHOOSE k \in Fields : isReactive(st[k]) /\ st[k].val = ObjRef(id)].o)
     ELSE h[id]]

\* the plain value of `val`: a number, or the content of the object
PlainOf(val, h) ==
  IF val.t = "prim" THEN DataPrim(val.v)
  ELSE IF val.t = "obj" THEN DataObj(h[val.v])
  ELSE [t |-> "undefined", v |-> 0, o |-> EmptyObj]

\* $serializeState of lines 56-72: out[key] for one field; item.value of a
\* ref, else the item; toRaw gives the object itself
serialized_RefsOnly(item, h) == IF isRef(item) THEN PlainOf(item.val, h) ELSE NotInData

serialized(item, h) == PlainOf(item.val, h)

\* the effect of $reset() of lines 89-99: a ref is assigned defaults[key],
\* itself and not a copy; a reactive object gets its properties copied
resetCells(st, defs) ==
  [k \in Fields |-> IF isRef(st[k]) THEN [st[k] EXCEPT !.val = defs[k]] ELSE st[k]]

resetHeap(st, h, defs) ==
  [id \in Slots |->
     IF \E k \in Fields : isReactive(st[k]) /\ st[k].val = ObjRef(id) /\ defs[k].t = "obj"
       THEN LET k == CHOOSE f \in Fields : isReactive(st[f]) /\ st[f].val = ObjRef(id)
            IN  ObjectAssign(h[id], h[defs[k].v])
       ELSE h[id]]

\* ------------------------------------------------------------------ state
VARIABLES
  plugin,        \* has createPiniaSimplePersist been called
  globalOptions, \* its argument
  storageData,   \* contents of every backing store: storage -> key -> string
  definition,    \* per store: the options and capabilities it is defined with
  status,        \* per store: "undefined", or how the plugin call ended
  found,         \* per store: the record at its key when the plugin was called
  thrown,        \* per store: the value the plugin call threw
  count,         \* per store: the field `count` the store persists
  config,        \* per store: the destructured options of lines 34-45
  subscribed,    \* per store: is the $subscribe callback of line 82 registered
  queued,        \* per store: a change notification is queued by the host
  wrapped,       \* per store: is store.$dispose the wrapper of line 88
  disposeCalls,  \* per store: calls of the original $dispose
  disposal,      \* per store: the calls made by its last store.$dispose()
  timeout,       \* per store: `timeout` of makeDebounce (a timer id or 0)
  timers,        \* timers of the host that are set and not yet run or cleared
  nextTimerId,   \* the id the next setTimeout returns
  now,           \* clock of the timer host
  trace,         \* per store: the calls the plugin made while attaching
  handled,       \* per store: arguments of the onRestoreError calls
  log,           \* notifications delivered and writes done, in order
  lastWrite,     \* the last storage.setItem call: storage, key and value
  lastNotifyAt,  \* per store: time of the last delivered notification
  seenAtNotify,  \* per store: `count` at the last delivered notification
  state,         \* mapper: field -> its cell, [kind, val]
  heap,          \* mapper: object identity -> content
  defaults,      \* mapper: field -> its default value
  call           \* mapper: the last call of a mapper method and its argument

vars ==
  <<plugin, globalOptions, storageData, definition, status, found, thrown, count,
    config, subscribed, queued, wrapped, disposeCalls, disposal, timeout, timers,
    nextTimerId, now, trace, handled, log, lastWrite, lastNotifyAt, seenAtNotify,
    state, heap, defaults, call>>

mapperVars == <<state, heap, defaults, call>>

\* no setItem call yet
NoWrite == [storage |-> Absent, key |-> Absent, value |-> Absent]

\* a store that is not created yet
NoDefinition == [persist |-> NoPersist, hasRestoreState |-> FALSE,
                 hasSerializeState |-> FALSE]

EmptyStorage == [st \in Storages |-> [k \in Keys |-> Null]]

\* no mapper method called yet
NoData == [k \in Fields |-> NotInData]

NoCall == [op |-> "none", data |-> NoData, out |-> NoData]

\* the cells of a mapper over the given initial values, and its heap
Cells(cnt) ==
  [k \in Fields |->
     [kind |-> KindOf[k], val |-> IF k = "count" THEN Prim(cnt) ELSE ObjRef(InitSlot(k))]]

Heap(items, user, plain) ==
  [id \in Slots |->
     IF id = InitSlot("items") THEN items
     ELSE IF id = InitSlot("user") THEN user
     ELSE IF id = InitSlot("plain") THEN plain
     ELSE IF id = DefaultSlot("user") THEN [p \in PropNames |-> 0]
     ELSE IF id = DefaultSlot("plain") THEN [EmptyObj EXCEPT !["name"] = 0]
     ELSE EmptyObj]

\* defaults of the tests: { count: 0, items: [], user: {name: '', age: 0} }
Defaults ==
  [k \in Fields |-> IF k = "count" THEN Prim(0) ELSE ObjRef(DefaultSlot(k))]

\* the mapper of a store that has just been set up
MapperOf(cnt, items, user, plain) ==
  /\ state = Cells(cnt)
  /\ heap = Heap(items, user, plain)
  /\ defaults = Defaults
  /\ call = NoCall

\* no plugin created, no store created, nothing stored
Idle ==
  /\ plugin = FALSE
  /\ globalOptions = NoGlobalOptions
  /\ storageData = EmptyStorage
  /\ definition = [s \in Stores |-> NoDefinition]
  /\ status = [s \in Stores |-> "undefined"]
  /\ found = [s \in Stores |-> Null]
  /\ thrown = [s \in Stores |-> NoThrow]
  /\ count = [s \in Stores |-> InitialCount]
  /\ config = [s \in Stores |-> NoConfig]
  /\ subscribed = [s \in Stores |-> FALSE]
  /\ queued = [s \in Stores |-> FALSE]
  /\ wrapped = [s \in Stores |-> FALSE]
  /\ disposeCalls = [s \in Stores |-> 0]
  /\ disposal = [s \in Stores |-> <<>>]
  /\ timeout = [s \in Stores |-> NoTimeout]
  /\ timers = {}
  /\ nextTimerId = 1
  /\ now = 0
  /\ trace = [s \in Stores |-> <<>>]
  /\ handled = [s \in Stores |-> <<>>]
  /\ log = <<>>
  /\ lastWrite = NoWrite
  /\ lastNotifyAt = [s \in Stores |-> 0]
  /\ seenAtNotify = [s \in Stores |-> InitialCount]

Init == Idle /\ MapperOf(0, EmptyObj, EmptyObj, EmptyObj)

\* a test puts a record into a backing store before the plugin is created
Seed(st, k, str) ==
  /\ ~plugin
  /\ storageData = EmptyStorage
  /\ storageData' = [storageData EXCEPT ![st][k] = str]
  /\ UNCHANGED <<plugin, globalOptions, definition, found, status, thrown,
                 count, config, subscribed, queued, wrapped, disposeCalls,
                 disposal, timeout, timers, nextTimerId, now, trace, handled,
                 log, lastWrite, lastNotifyAt, seenAtNotify>>
  /\ UNCHANGED mapperVars

createPiniaSimplePersist(g) ==
  /\ ~plugin
  /\ plugin' = TRUE
  /\ globalOptions' = g
  /\ UNCHANGED <<storageData, definition, found, status, thrown, count,
                 config, subscribed, queued, wrapped, disposeCalls, disposal,
                 timeout, timers, nextTimerId, now, trace, handled, log,
                 lastWrite, lastNotifyAt, seenAtNotify>>
  /\ UNCHANGED mapperVars

\* ensureStoreHasRestoreState, ensureStoreHasSerializeState: what is thrown
ensureStoreHasRestoreState(def) ==
  IF def.hasRestoreState THEN NoThrow ELSE RestoreStateMissing

ensureStoreHasSerializeState_Skip(def) == NoThrow

ensureStoreHasSerializeState(def) ==
  IF def.hasSerializeState THEN NoThrow ELSE SerializeStateMissing

\* the capability checks of lines 28-29, in order
Validate(def) ==
  IF ensureStoreHasRestoreState(def) # NoThrow
    THEN ensureStoreHasRestoreState(def)
    ELSE ensureStoreHasSerializeState(def)

\* does the plugin go on after line 32
Persisted_ObjectOnly(def) == def.persist.kind = "object"

Persisted(def) == ~Falsy(def.persist)

\* the plugin function of lines 25-96 as one result: the calls it makes in
\* order, the closure it leaves behind and what it throws
Plugin(g, s, def, data, cnt) ==
  IF Validate(def) # NoThrow
    THEN [trace |-> <<>>, config |-> NoConfig, subscribed |-> FALSE,
          wrapped |-> FALSE, count |-> cnt, handled |-> <<>>,
          thrown |-> Validate(def)]
  ELSE IF ~Persisted(def)
    THEN [trace |-> <<>>, config |-> NoConfig, subscribed |-> FALSE,
          wrapped |-> FALSE, count |-> cnt, handled |-> <<>>, thrown |-> NoThrow]
  ELSE
    LET c == ResolveOptions(g, def.persist, s)
        r == restoreState(c, data, cnt)
        t == (IF c.derivedKey THEN <<Ev("makeKey", s)>> ELSE <<>>)
               \o <<Ev("$subscribe", s), Ev("wrap $dispose", s)>>
    IN  [trace |-> t \o r.trace, config |-> c, subscribed |-> TRUE,
         wrapped |-> TRUE, count |-> r.count, handled |-> r.handled,
         thrown |-> r.thrown]

\* useStore() of a store defined with `def`: pinia creates the store and
\* calls the plugin on it.  A mutation by $restoreState while the listener
\* is registered queues a change notification.
useStore(s, def) ==
  /\ plugin
  /\ status[s] = "undefined"
  /\ LET r == Plugin(globalOptions, s, def, storageData, count[s])
     IN  /\ status' = [status EXCEPT ![s] = IF r.thrown = NoThrow THEN "returned" ELSE "threw"]
         /\ thrown' = [thrown EXCEPT ![s] = r.thrown]
         /\ count' = [count EXCEPT ![s] = r.count]
         /\ config' = [config EXCEPT ![s] = r.config]
         /\ subscribed' = [subscribed EXCEPT ![s] = r.subscribed]
         /\ wrapped' = [wrapped EXCEPT ![s] = r.wrapped]
         /\ queued' = [queued EXCEPT ![s] = r.subscribed /\ r.count # count[s]]
         /\ trace' = [trace EXCEPT ![s] = r.trace]
         /\ handled' = [handled EXCEPT ![s] = r.handled]
         /\ found' = [found EXCEPT ![s] =
                        IF r.config = NoConfig THEN Null
                        ELSE storageData[r.config.storage][r.config.key]]
         /\ definition' = [definition EXCEPT ![s] = def]
  /\ UNCHANGED <<plugin, globalOptions, storageData, disposeCalls, disposal,
                 timeout, timers, nextTimerId, now, log, lastWrite,
                 lastNotifyAt, seenAtNotify>>
  /\ UNCHANGED mapperVars

\* the application assigns store.count = v; the host queues a notification
\* for the listeners registered at that moment
Mutate(s, v) ==
  /\ status[s] # "undefined"
  /\ v # count[s]
  /\ count' = [count EXCEPT ![s] = v]
  /\ queued' = [queued EXCEPT ![s] = queued[s] \/ subscribed[s]]
  /\ UNCHANGED <<plugin, globalOptions, storageData, definition, found,
                 status, thrown, config, subscribed, wrapped, disposeCalls,
                 disposal, timeout, timers, nextTimerId, now, trace, handled,
                 log, lastWrite, lastNotifyAt, seenAtNotify>>
  /\ UNCHANGED mapperVars

Notified(s) == [type |-> "notify", store |-> s]

Written(s) == [type |-> "write", store |-> s]

\* does saveState of lines 66-70 throw: in serialize or in setItem
SaveThrows(c) == SerializeThrows(c.serializer) \/ SetItemThrows(c.storage)

\* saveState threw out of the callback that ran it
Raised(s) == [type |-> "throw", store |-> s]

\* the arguments of storage.setItem(key, serialized)
SetItemCall(c, text) == [storage |-> c.storage, key |-> c.key, value |-> text]

\* saveState of lines 66-70: the record it writes
saveState_AtTrigger(s) == serialize(config[s].serializer, [count |-> seenAtNotify[s]])

saveState(s) == serialize(config[s].serializer, [count |-> count[s]])

\* storage.setItem(key, serialized)
setItem_EveryKey(data, c, text) == [data EXCEPT ![c.storage] = [k \in Keys |-> text]]

setItem(data, c, text) == [data EXCEPT ![c.storage][c.key] = text]

\* the timers left after clearTimeout(id)
clearTimeout_Noop(set, id) == set

clearTimeout(set, id) == {t \in set : t.id # id}

\* `if (debounce)` of line 75: is finalSave the debounced function
Debounced_Always(c) == TRUE

Debounced(c) == c.debounce # 0

\* the timers after debouncedFn of lines 105-110 ran for the attachment of
\* s: its own timer is cleared, a new one is set
debouncedFn_Shared(set, s, id, at) == {[id |-> id, owner |-> s, at |-> at]}

debouncedFn(set, s, id, at) ==
  clearTimeout(set, timeout[s]) \cup {[id |-> id, owner |-> s, at |-> at]}

\* number of notifications delivered so far
Notifications == Cardinality({i \in DOMAIN log : log[i].type = "notify"})

\* the host delivers the queued notification: the callback of line 82 runs
\* finalSave, which is saveState or debouncedFn (lines 72-79, 105-110)
Deliver(s) ==
  /\ queued[s] /\ subscribed[s]
  /\ Notifications < MaxEvents
  /\ queued' = [queued EXCEPT ![s] = FALSE]
  /\ lastNotifyAt' = [lastNotifyAt EXCEPT ![s] = now]
  /\ seenAtNotify' = [seenAtNotify EXCEPT ![s] = count[s]]
  /\ IF Debounced(config[s])
       THEN /\ timers' = debouncedFn(timers, s, nextTimerId, now + config[s].debounce)
            /\ timeout' = [timeout EXCEPT ![s] = nextTimerId]
            /\ nextTimerId' = nextTimerId + 1
            /\ log' = Append(log, Notified(s))
            /\ UNCHANGED <<storageData, lastWrite>>
       ELSE /\ IF SaveThrows(config[s])
                 THEN /\ log' = log \o <<Notified(s), Raised(s)>>
                      /\ UNCHANGED <<storageData, lastWrite>>
                 ELSE /\ storageData' = setItem(storageData, config[s], saveState(s))
                      /\ log' = log \o <<Notified(s), Written(s)>>
                      /\ lastWrite' = SetItemCall(config[s], saveState(s))
            /\ UNCHANGED <<timeout, timers, nextTimerId>>
  /\ UNCHANGED <<plugin, globalOptions, definition, found, status, thrown,
                 count, config, subscribed, wrapped, disposeCalls, disposal,
                 now, trace, handled>>
  /\ UNCHANGED mapperVars

\* timers run in order of their time, then of their creation
Due_Never(t) == FALSE

Due(t) ==
  /\ t \in timers
  /\ t.at <= now
  /\ \A u \in timers : u.at > t.at \/ (u.at = t.at /\ u.id >= t.id)

\* the callback of line 107 runs: callback() is saveState
TimerFire(t) ==
  /\ Due(t)
  /\ timers' = timers \ {t}
  /\ IF SaveThrows(config[t.owner])
       THEN /\ log' = Append(log, Raised(t.owner))
            /\ UNCHANGED <<storageData, lastWrite>>
       ELSE /\ storageData' = setItem(storageData, config[t.owner], saveState(t.owner))
            /\ log' = Append(log, Written(t.owner))
            /\ lastWrite' = SetItemCall(config[t.owner], saveState(t.owner))
  /\ UNCHANGED <<plugin, globalOptions, definition, found, status, thrown,
                 count, config, subscribed, queued, wrapped, disposeCalls,
                 disposal, timeout, nextTimerId, now, trace, handled,
                 lastNotifyAt, seenAtNotify>>
  /\ UNCHANGED mapperVars

\* time passes, counted from the creation of the first store; a timer runs
\* when its time has come
Tick ==
  /\ \E s \in Stores : status[s] # "undefined"
  /\ now < MaxTime
  /\ \A t \in timers : t.at > now
  /\ now' = now + 1
  /\ UNCHANGED <<plugin, globalOptions, storageData, definition, found,
                 status, thrown, count, config, subscribed, queued, wrapped,
                 disposeCalls, disposal, timeout, timers, nextTimerId, trace,
                 handled, log, lastWrite, lastNotifyAt, seenAtNotify>>
  /\ UNCHANGED mapperVars

\* time does not stop while a timer is pending: the clock goes on past
\* MaxTime until the timers set before have run
Elapse ==
  /\ timers # {}
  /\ now >= MaxTime
  /\ \A t \in timers : t.at > now
  /\ now' = now + 1
  /\ UNCHANGED <<plugin, globalOptions, storageData, definition, found,
                 status, thrown, count, config, subscribed, queued, wrapped,
                 disposeCalls, disposal, timeout, timers, nextTimerId, trace,
                 handled, log, lastWrite, lastNotifyAt, seenAtNotify>>
  /\ UNCHANGED mapperVars

\* cleanup of lines 112-117
cleanup_Noop(s) == UNCHANGED <<timers, timeout>>

cleanup(s) ==
  IF timeout[s] # NoTimeout
    THEN /\ timers' = clearTimeout(timers, timeout[s])
         /\ timeout' = [timeout EXCEPT ![s] = NoTimeout]
    ELSE UNCHANGED <<timers, timeout>>

\* unsubscribe() of line 89: the listeners left registered
unsubscribe_Noop(sub, s) == sub

unsubscribe(sub, s) == [sub EXCEPT ![s] = FALSE]

\* the calls of the wrapper of lines 88-92, in order; `this` is the store
\* $dispose is called on
wrapper_OriginalFirst(s) ==
  <<Ev("originalDispose", s), Ev("unsubscribe", s)>>
    \o (IF Debounced(config[s]) THEN <<Ev("cleanupDebounce", s)>> ELSE <<>>)
    \o (IF Debounced(config[s]) /\ timeout[s] # NoTimeout
          THEN <<Ev("clearTimeout", s)>> ELSE <<>>)

wrapper(s) ==
  <<Ev("unsubscribe", s)>>
    \o (IF Debounced(config[s]) THEN <<Ev("cleanupDebounce", s)>> ELSE <<>>)
    \o (IF Debounced(config[s]) /\ timeout[s] # NoTimeout
          THEN <<Ev("clearTimeout", s)>> ELSE <<>>)
    \o <<Ev("originalDispose", s)>>

\* store.$dispose(): the wrapper of lines 88-92 when the plugin installed
\* it, else the original
Dispose(s) ==
  /\ status[s] # "undefined"
  /\ disposeCalls[s] < MaxDisposals
  /\ IF wrapped[s]
       THEN /\ subscribed' = unsubscribe(subscribed, s)
            /\ queued' = [queued EXCEPT ![s] = queued[s] /\ subscribed'[s]]
            /\ IF Debounced(config[s]) THEN cleanup(s) ELSE UNCHANGED <<timers, timeout>>
            /\ disposal' = [disposal EXCEPT ![s] = wrapper(s)]
       ELSE /\ UNCHANGED <<subscribed, queued, timers, timeout>>
            /\ disposal' = [disposal EXCEPT ![s] = <<Ev("originalDispose", s)>>]
  /\ disposeCalls' = [disposeCalls EXCEPT ![s] = @ + 1]
  /\ UNCHANGED <<plugin, globalOptions, storageData, definition, found,
                 status, thrown, count, config, wrapped, nextTimerId, now,
                 trace, handled, log, lastWrite, lastNotifyAt, seenAtNotify>>
  /\ UNCHANGED mapperVars

\* ----------------------------------------------------------------- inputs
\* records a test seeds a backing store with
SeedTexts == {JSONstringify([count |-> 1]), "invalid-json", ""}

\* arguments of createPiniaSimplePersist
GlobalChoices ==
  {[NoGlobalOptions EXCEPT !.storage = "mockStorage", !.debounce = d,
                           !.beforeRestore = h, !.afterRestore = h,
                           !.onRestoreError = e] :
     d \in {AbsentN, DebounceMs}, h \in {Absent, "global hook"},
     e \in {Absent, "global handler"}}
  \cup
  {[NoGlobalOptions EXCEPT !.storage = "mockStorage", !.serializer = "throwing",
                           !.afterRestore = "global hook", !.onRestoreError = e] :
     e \in {Absent, "global handler"}}

\* values of the persist option of defineStore
PersistChoices ==
  {NoPersist, [NoPersist EXCEPT !.kind = "false"], PersistTrue}
    \cup {[PersistEmpty EXCEPT !.debounce = d, !.onRestoreError = e] :
            d \in {AbsentN, 0}, e \in {Absent, "store handler"}}

\* store definitions: the persist option and the capabilities the setup
\* function returns
StoreDefs ==
  [persist : PersistChoices, hasRestoreState : BOOLEAN, hasSerializeState : BOOLEAN]

Next ==
  \/ \E str \in SeedTexts : Seed("mockStorage", "pinia-a", str)
  \/ \E g \in GlobalChoices : createPiniaSimplePersist(g)
  \/ \E def \in StoreDefs : useStore("a", def)
  \/ \E v \in Values : Mutate("a", v)
  \/ Deliver("a")
  \/ \E t \in timers : TimerFire(t)
  \/ Tick
  \/ Dispose("a")

Spec == Init /\ [][Next]_vars

\* ------------------------------------------------- inputs: every option
\* arguments of createPiniaSimplePersist that set or omit each option
OptionGlobals ==
  [storage : {Absent, "mockStorage"}, serializer : {Absent, "custom"},
   debounce : {AbsentN, DebounceMs}, beforeRestore : {Absent, "global hook"},
   afterRestore : {Absent, "global hook"},
   onRestoreError : {Absent, "global handler"}, makeKey : {Absent, "app"}]

\* persist options that set or omit each option, with values that differ
\* from the global ones and from the defaults
OptionPersists ==
  {PersistTrue} \cup
  [kind : {"object"}, key : {Absent, "custom-key"},
   storage : {Absent, "customStorage"}, serializer : {Absent, "throwing"},
   debounce : {AbsentN, 0, DebounceMs + 1},
   beforeRestore : {Absent, "store hook"}, afterRestore : {Absent, "store hook"},
   onRestoreError : {Absent, "store handler"}]

OptionDefs ==
  [persist : OptionPersists, hasRestoreState : {TRUE}, hasSerializeState : {TRUE}]

\* records a backing store may hold before the application starts
OptionSeeds == {JSONstringify([count |-> 1]), serialize("custom", [count |-> 2])}

\* attachment alone, over every combination of options
OptionsNext ==
  \/ \E st \in Storages \ {DeniedStorage}, k \in {"pinia-a", "app-a", "custom-key"},
          str \in OptionSeeds :
       Seed(st, k, str)
  \/ \E g \in OptionGlobals : createPiniaSimplePersist(g)
  \/ \E def \in OptionDefs : useStore("a", def)

OptionsSpec == Init /\ [][OptionsNext]_vars

\* -------------------------------------------------- inputs: every key
\* global options with and without makeKey, persist options with and
\* without key
KeyGlobals ==
  {[NoGlobalOptions EXCEPT !.storage = "mockStorage", !.debounce = d, !.makeKey = mk] :
     d \in {AbsentN, DebounceMs}, mk \in {Absent, "app"}}

KeyDefs ==
  [persist : {PersistTrue, PersistEmpty, [PersistEmpty EXCEPT !.key = "custom-key"]},
   hasRestoreState : {TRUE}, hasSerializeState : {TRUE}]

\* restore and saves of one store under every way of choosing its key
KeyNext ==
  \/ \E k \in {"pinia-a", "app-a", "custom-key"} :
       Seed("mockStorage", k, JSONstringify([count |-> 1]))
  \/ \E g \in KeyGlobals : createPiniaSimplePersist(g)
  \/ \E def \in KeyDefs : useStore("a", def)
  \/ \E v \in Values : Mutate("a", v)
  \/ Deliver("a")
  \/ \E t \in timers : TimerFire(t)
  \/ Tick

KeySpec == Init /\ [][KeyNext]_vars

\* ------------------------------------------------- inputs: two stores
\* one backing store for every persisted store
SharedGlobals ==
  {[NoGlobalOptions EXCEPT !.storage = "mockStorage", !.debounce = DebounceMs]}

\* persisted stores; under a global debounce one of them may save at once
SharedDefs ==
  [persist : {PersistEmpty, [PersistEmpty EXCEPT !.debounce = 0]},
   hasRestoreState : {TRUE}, hasSerializeState : {TRUE}]

\* two stores of one application on one backing store: "b" has a record
\* of an earlier run and changes by its restore, "a" by the application
TwoNext ==
  \/ Seed("mockStorage", "pinia-b", JSONstringify([count |-> 1]))
  \/ \E g \in SharedGlobals : createPiniaSimplePersist(g)
  \/ \E s \in Stores, def \in SharedDefs : useStore(s, def)
  \/ \E v \in Values : Mutate("a", v)
  \/ \E s \in Stores : Deliver(s)
  \/ \E t \in timers : TimerFire(t)
  \/ Tick

TwoSpec == Init /\ [][TwoNext]_vars

\* ------------------------------------------- inputs: explicit undefined
\* persist options that omit an option or give it the value undefined,
\* e.g. persist: { storage: undefined }
UndefGlobals ==
  [storage : {Absent, "mockStorage"}, serializer : {Absent, "custom"},
   debounce : {AbsentN, DebounceMs}, beforeRestore : {Absent, "global hook"},
   afterRestore : {Absent}, onRestoreError : {Absent, "global handler"},
   makeKey : {Absent}]

UndefPersists ==
  [kind : {"object"}, key : {Absent, Undefined},
   storage : {Absent, Undefined}, serializer : {Absent, Undefined},
   debounce : {AbsentN, UndefinedN},
   beforeRestore : {Absent, Undefined}, afterRestore : {Absent},
   onRestoreError : {Absent, Undefined}]

UndefDefs ==
  [persist : UndefPersists, hasRestoreState : {TRUE}, hasSerializeState : {TRUE}]

UndefNext ==
  \/ \E st \in {"localStorage", "mockStorage"}, str \in OptionSeeds :
       Seed(st, "pinia-a", str)
  \/ \E g \in UndefGlobals : createPiniaSimplePersist(g)
  \/ \E def \in UndefDefs : useStore("a", def)

UndefSpec == Init /\ [][UndefNext]_vars

\* ------------------------------------------------- inputs: throwing hooks
\* hooks that return and hooks that throw, with and without a handler
HookGlobals ==
  {[NoGlobalOptions EXCEPT !.storage = st, !.beforeRestore = b,
                           !.afterRestore = h, !.onRestoreError = e] :
     st \in {"mockStorage", DeniedStorage},
     b \in {Absent, "global hook", ThrowingHook},
     h \in {Absent, "global hook", ThrowingHook},
     e \in {Absent, "global handler"}}

HookDefs ==
  [persist : {PersistEmpty}, hasRestoreState : {TRUE}, hasSerializeState : {TRUE}]

HookNext ==
  \/ \E str \in SeedTexts : Seed("mockStorage", "pinia-a", str)
  \/ \E g \in HookGlobals : createPiniaSimplePersist(g)
  \/ \E def \in HookDefs : useStore("a", def)
  \/ \E v \in Values : Mutate("a", v)
  \/ Deliver("a")
  \/ Dispose("a")

HookSpec == Init /\ [][HookNext]_vars

\* --------------------------------------------------- inputs: failing saves
\* a serializer that serializes and one whose serialize throws, with
\* immediate and with debounced saves
SaveGlobals ==
  {[NoGlobalOptions EXCEPT !.storage = "mockStorage", !.serializer = ser,
                           !.debounce = d, !.onRestoreError = e] :
     ser \in {Absent, "failing"}, d \in {AbsentN, DebounceMs},
     e \in {Absent, "global handler"}}

SaveDefs ==
  [persist : {PersistEmpty}, hasRestoreState : {TRUE}, hasSerializeState : {TRUE}]

SaveNext ==
  \/ Seed("mockStorage", "pinia-a", JSONstringify([count |-> 1]))
  \/ \E g \in SaveGlobals : createPiniaSimplePersist(g)
  \/ \E def \in SaveDefs : useStore("a", def)
  \/ \E v \in Values : Mutate("a", v)
  \/ Deliver("a")
  \/ \E t \in timers : TimerFire(t)
  \/ Tick

SaveSpec == Init /\ [][SaveNext]_vars

\* ------------------------------------------------ a store that lives on
\* a persisted store that is never disposed and whose saves succeed, with
\* immediate and with debounced saves
LiveGlobals ==
  {[NoGlobalOptions EXCEPT !.storage = "mockStorage", !.debounce = d] :
     d \in {AbsentN, DebounceMs}}

LiveDefs ==
  [persist : {PersistEmpty}, hasRestoreState : {TRUE}, hasSerializeState : {TRUE}]

LiveNext ==
  \/ \E g \in LiveGlobals : createPiniaSimplePersist(g)
  \/ \E def \in LiveDefs : useStore("a", def)
  \/ \E v \in Values : Mutate("a", v)
  \/ Deliver("a")
  \/ \E t \in timers : TimerFire(t)
  \/ Tick
  \/ Elapse

\* the host runs a queued notification callback, time passes, and a timer
\* whose time has come runs
LiveFairness ==
  /\ WF_vars(Deliver("a"))
  /\ WF_vars(\E t \in timers : TimerFire(t))
  /\ WF_vars(Tick)
  /\ WF_vars(Elapse)

LiveSpec == Init /\ [][LiveNext]_vars /\ LiveFairness

\* --------------------------------------- inputs: two debounced stores
\* two persisted stores that both save debounced; "a" is changed freely,
\* "b" is changed once, and both may be disposed
PairGlobals ==
  {[NoGlobalOptions EXCEPT !.storage = "mockStorage", !.debounce = DebounceMs]}

PairDefs ==
  [persist : {PersistEmpty}, hasRestoreState : {TRUE}, hasSerializeState : {TRUE}]

PairNext ==
  \/ \E g \in PairGlobals : createPiniaSimplePersist(g)
  \/ \E s \in Stores, def \in PairDefs : useStore(s, def)
  \/ \E v \in Values : Mutate("a", v)
  \/ Mutate("b", MaxValue)
  \/ \E s \in Stores : Deliver(s)
  \/ \E t \in timers : TimerFire(t)
  \/ Tick
  \/ \E s \in Stores : Dispose(s)

PairSpec == Init /\ [][PairNext]_vars

\* ------------------------------------------------------ the mapper alone
\* mapper.$restoreState(data), lines 74-87
RestoreState(data) ==
  /\ state' = restoredCells(state, data)
  /\ heap' = Collect(state', restoredHeap(state, heap, data))
  /\ call' = [op |-> "$restoreState", data |-> data, out |-> NoData]
  /\ UNCHANGED defaults
  /\ UNCHANGED <<plugin, globalOptions, storageData, definition, status, found,
                 thrown, count, config, subscribed, queued, wrapped,
                 disposeCalls, disposal, timeout, timers, nextTimerId, now,
                 trace, handled, log, lastWrite, lastNotifyAt, seenAtNotify>>

\* mapper.$reset(), lines 89-99
Reset ==
  /\ state' = resetCells(state, defaults)
  /\ heap' = Collect(state', resetHeap(state, heap, defaults))
  /\ call' = [op |-> "$reset", data |-> NoData, out |-> NoData]
  /\ UNCHANGED defaults
  /\ UNCHANGED <<plugin, globalOptions, storageData, definition, status, found,
                 thrown, count, config, subscribed, queued, wrapped,
                 disposeCalls, disposal, timeout, timers, nextTimerId, now,
                 trace, handled, log, lastWrite, lastNotifyAt, seenAtNotify>>

\* mapper.$serializeState(), lines 56-72: the record it returns
SerializeState ==
  /\ call' = [op |-> "$serializeState", data |-> NoData,
              out |-> [k \in Fields |-> serialized(state[k], heap)]]
  /\ UNCHANGED <<state, heap, defaults>>
  /\ UNCHANGED <<plugin, globalOptions, storageData, definition, status, found,
                 thrown, count, config, subscribed, queued, wrapped,
                 disposeCalls, disposal, timeout, timers, nextTimerId, now,
                 trace, handled, log, lastWrite, lastNotifyAt, seenAtNotify>>

\* the application changes a field in place: user.name = v, or
\* items.value.push(v) through the object a ref holds
SetProp(k, p, v) ==
  /\ isRef(state[k]) \/ isReactive(state[k])
  /\ state[k].val.t = "obj"
  /\ heap[state[k].val.v][p] # v
  /\ heap' = [heap EXCEPT ![state[k].val.v][p] = v]
  /\ call' = [op |-> "set", data |-> NoData, out |-> NoData]
  /\ UNCHANGED <<state, defaults>>
  /\ UNCHANGED <<plugin, globalOptions, storageData, definition, status, found,
                 thrown, count, config, subscribed, queued, wrapped,
                 disposeCalls, disposal, timeout, timers, nextTimerId, now,
                 trace, handled, log, lastWrite, lastNotifyAt, seenAtNotify>>

\* objects an array-like ref holds, and objects a reactive holds
ItemObjs == {o \in Objs : o["age"] = NoProp}

\* arguments of $restoreState: per field a value of its type, or nothing;
\* every shape of object for the reactive field
Datas ==
  [count : {NotInData, DataPrim(MaxProp)},
   items : {NotInData, DataObj([EmptyObj EXCEPT !["name"] = MaxProp])},
   user : {NotInData} \cup {DataObj(o) : o \in Objs},
   plain : {NotInData, DataObj([EmptyObj EXCEPT !["name"] = MaxProp])}]

MapperInit ==
  /\ Idle
  /\ \E cnt \in PropValues, items \in ItemObjs, user \in Objs :
       MapperOf(cnt, items, user, [EmptyObj EXCEPT !["name"] = 0])

MapperNext == \E data \in Datas : RestoreState(data)

MapperSpec == MapperInit /\ [][MapperNext]_vars

\* the mapper over its life: restores, resets, snapshots and changes made in
\* place by the application, from fewer restore arguments
LifeDatas ==
  [count : {NotInData, DataPrim(MaxProp)},
   items : {NotInData, DataObj([EmptyObj EXCEPT !["name"] = MaxProp])},
   user : {NotInData, DataObj([EmptyObj EXCEPT !["age"] = MaxProp])},
   plain : {NotInData, DataObj([EmptyObj EXCEPT !["age"] = MaxProp])}]

LifeInit ==
  /\ Idle
  /\ \E cnt \in {0, MaxProp}, user \in {o \in Objs : o["name"] = MaxProp} :
       MapperOf(cnt, [EmptyObj EXCEPT !["name"] = MaxProp], user,
                [EmptyObj EXCEPT !["name"] = MaxProp])

LifeNext ==
  \/ \E data \in LifeDatas : RestoreState(data)
  \/ Reset
  \/ SerializeState
  \/ \E k \in {"items", "user"}, p \in PropNames, v \in PropValues : SetProp(k, p, v)

LifeSpec == LifeInit /\ [][LifeNext]_vars

\* ------------------------------------------------------------ vocabulary
\* the store exists, has both capabilities and a truthy persist option
Attached(s) ==
  /\ status[s] # "undefined"
  /\ definition[s].persist.kind \in {"true", "object"}
  /\ definition[s].hasRestoreState /\ definition[s].hasSerializeState

\* the store exists and is defined without a persist option (or a falsy one)
Unpersisted(s) ==
  status[s] # "undefined" /\ definition[s].persist.kind \in {"undefined", "false"}

WritesOf(s) == {i \in DOMAIN log : log[i].type = "write" /\ log[i].store = s}
NotifiesOf(s) == {i \in DOMAIN log : log[i].type = "notify" /\ log[i].store = s}

\* the calls of the restore protocol the plugin made for s
RestoreCalls(s) ==
  SelectSeq(trace[s], LAMBDA e : e.ev \notin {"makeKey", "$subscribe", "wrap $dispose"})

EventNames(seq) == [i \in DOMAIN seq |-> seq[i].ev]

Called(s, name) == \E i \in DOMAIN trace[s] : trace[s][i].ev = name

\* ----------------------------------------------------------------- claims
\* C1: a store attached without a persist option (absent or falsy) never
\* causes a write to a backing store, whatever mutations and notifications
\* happen.
C1_NoWriteWithoutPersist ==
  \A s \in Stores :
    Unpersisted(s) =>
      /\ WritesOf(s) = {}
      /\ \A t \in timers : t.owner # s
      /\ (\A o \in Stores \ {s} : ~Attached(o)) =>
            /\ log = <<>>
            /\ \A st \in Storages, k \in Keys :
                 storageData[st][k] # Null => storageData[st][k] \in SeedTexts

C1_Witness ==
  \E s \in Stores :
    /\ Unpersisted(s)
    /\ definition[s].hasRestoreState /\ definition[s].hasSerializeState
    /\ count[s] # InitialCount
    /\ now > 0

\* C2: attaching to a store without a persist option is inert, whether or
\* not the store has the serialize and restore capabilities: no error, no
\* storage read, no hook call, no listener, disposal not wrapped.
C2_InertWithoutPersist ==
  \A s \in Stores :
    Unpersisted(s) =>
      /\ status[s] = "returned"
      /\ trace[s] = <<>>
      /\ ~subscribed[s]
      /\ ~wrapped[s]

\* C3: attaching a persisted store that lacks the serialize or the restore
\* capability throws the configuration error, and nothing has been done by
\* then: no storage read or write, no hook call, no key derivation, no
\* listener registration.
C3_MissingCapabilityFailsFirst ==
  \A s \in Stores :
    /\ status[s] # "undefined"
    /\ definition[s].persist.kind \in {"true", "object"}
    /\ ~(definition[s].hasRestoreState /\ definition[s].hasSerializeState)
    => /\ status[s] = "threw"
       /\ thrown[s] \in {RestoreStateMissing, SerializeStateMissing}
       /\ ~definition[s].hasRestoreState => thrown[s] = RestoreStateMissing
       /\ trace[s] = <<>>
       /\ handled[s] = <<>>
       /\ ~subscribed[s] /\ ~wrapped[s]
       /\ WritesOf(s) = {} /\ NotifiesOf(s) = {}

C3_Witness ==
  \E s \in Stores :
    /\ status[s] = "threw"
    /\ definition[s].persist.kind = "object"
    /\ definition[s].hasRestoreState /\ ~definition[s].hasSerializeState
    /\ thrown[s] = SerializeStateMissing
    /\ count[s] # InitialCount

\* the step in which useStore creates store s and the plugin runs on it
AttachStep(s) == status[s] = "undefined" /\ status'[s] # "undefined"

\* what serializer.deserialize makes of the record found at the key of s
Parsed(s) == deserialize(config[s].serializer, found[s])

\* the key of s held a record that deserializes / that does not
GoodRecord(s) == Attached(s) /\ found[s] \notin {Null, ""} /\ Parsed(s).ok
BadRecord(s) == Attached(s) /\ found[s] \notin {Null, ""} /\ ~Parsed(s).ok

HookNames(name, hook) == IF hook = Undefined THEN <<>> ELSE <<name>>

ArgOf(s, name) == (CHOOSE e \in {trace[s][i] : i \in DOMAIN trace[s]} : e.ev = name).arg

\* C4: with a record at the resolved key that deserializes, the plugin calls,
\* in this order and each once, beforeRestore, storage.getItem(key),
\* serializer.deserialize(record), store.$restoreState(data) and afterRestore,
\* all within the plugin call and so before any mutation of the store.
C4_RestoreOrder ==
  [][\A s \in Stores :
       AttachStep(s) /\ GoodRecord(s)' =>
         /\ status'[s] = "returned"
         /\ EventNames(RestoreCalls(s))' =
              HookNames("beforeRestore", config'[s].beforeRestore)
                \o <<"getItem", "deserialize", "$restoreState">>
                \o HookNames("afterRestore", config'[s].afterRestore)
         /\ ArgOf(s, "getItem")' = config'[s].key
         /\ ArgOf(s, "deserialize")' = found'[s]
         /\ ArgOf(s, "$restoreState")' = JSONstringify(Parsed(s).data)'
         /\ count'[s] = Parsed(s)'.data.count
         /\ handled'[s] = <<>>
         /\ log' = log]_vars

C4_Witness ==
  \E s \in Stores :
    /\ GoodRecord(s)
    /\ EventNames(RestoreCalls(s)) =
         <<"beforeRestore", "getItem", "deserialize", "$restoreState", "afterRestore">>
    /\ count[s] = 1
    /\ log = <<>>

\* C5: with no record at the resolved key, beforeRestore is still called
\* once, deserialize and $restoreState are not called, the state stays at
\* its initial value and afterRestore is not called.
C5_NoRecordNoRestore ==
  [][\A s \in Stores :
       AttachStep(s) /\ Attached(s)' /\ found'[s] = Null =>
         /\ status'[s] = "returned"
         /\ EventNames(RestoreCalls(s))' =
              HookNames("beforeRestore", config'[s].beforeRestore) \o <<"getItem">>
         /\ ArgOf(s, "getItem")' = config'[s].key
         /\ count'[s] = InitialCount
         /\ handled'[s] = <<>>]_vars

C5_Witness ==
  \E s \in Stores :
    /\ Attached(s) /\ found[s] = Null
    /\ config[s].beforeRestore # Undefined /\ config[s].afterRestore # Undefined
    /\ EventNames(RestoreCalls(s)) = <<"beforeRestore", "getItem">>
    /\ \E k \in Keys : storageData["mockStorage"][k] # Null

\* C6: when the record fails to deserialize and an onRestoreError handler is
\* configured, the handler is called exactly once, with an Error; the state
\* is unchanged, afterRestore is not called and the plugin call returns.
C6_HandlerGetsError ==
  [][\A s \in Stores :
       AttachStep(s) /\ BadRecord(s)' /\ config'[s].onRestoreError # Undefined =>
         /\ status'[s] = "returned"
         /\ Len(handled'[s]) = 1
         /\ handled'[s][1].isError
         /\ handled'[s][1].message = Parsed(s)'.error.message
         /\ Len(SelectSeq(trace'[s], LAMBDA e : e.ev = "onRestoreError")) = 1
         /\ ~Called(s, "$restoreState")'
         /\ ~Called(s, "afterRestore")'
         /\ count'[s] = count[s]]_vars

C6_Witness ==
  \E s \in Stores :
    /\ BadRecord(s)
    /\ config[s].onRestoreError # Undefined /\ config[s].afterRestore # Undefined
    /\ ~Parsed(s).error.isError
    /\ Len(handled[s]) = 1
    /\ status[s] = "returned"

\* C7: when the record fails to deserialize and no onRestoreError handler is
\* configured (store-level or global), the original error is thrown to the
\* caller of useStore; $restoreState and afterRestore are not called.
C7_NoHandlerRethrows ==
  [][\A s \in Stores :
       AttachStep(s) /\ BadRecord(s)' /\ config'[s].onRestoreError = Undefined =>
         /\ status'[s] = "threw"
         /\ thrown'[s] = Parsed(s)'.error
         /\ handled'[s] = <<>>
         /\ ~Called(s, "onRestoreError")'
         /\ ~Called(s, "$restoreState")'
         /\ ~Called(s, "afterRestore")'
         /\ count'[s] = count[s]]_vars

C7_Witness ==
  \E s \in Stores :
    /\ BadRecord(s)
    /\ globalOptions.onRestoreError = Absent
    /\ definition[s].persist.onRestoreError = Absent
    /\ config[s].afterRestore # Undefined
    /\ status[s] = "threw"
    /\ thrown[s] = SyntaxError

\* the plugin made finalSave the debounced function for s
DebouncedStore(s) == Attached(s) /\ config[s].debounce > 0

\* entries of the log that concern store s, in order
LogOf(s) == SelectSeq(log, LAMBDA e : e.store = s)

\* a write of store s is done in this step
WriteStep(s) ==
  /\ Len(log') > Len(log)
  /\ log'[Len(log')].type = "write"
  /\ log'[Len(log')].store = s

\* C8: with debounce d > 0 a write happens only exactly d after a change
\* notification that no other notification followed; a run of notifications
\* each less than d after the previous one gives exactly one write, d after
\* the last of them.
C8_DebouncedWriteTime ==
  [][\A s \in Stores :
       DebouncedStore(s)' =>
         /\ WriteStep(s) =>
              /\ now = lastNotifyAt[s] + config[s].debounce
              /\ LogOf(s)[Len(LogOf(s))].type = "notify"
         /\ \A i \in DOMAIN LogOf(s)' :
              LogOf(s)'[i].type = "write" => i > 1 /\ LogOf(s)'[i - 1].type = "notify"
         /\ ( /\ subscribed'[s]
              /\ LogOf(s)' # <<>>
              /\ LogOf(s)'[Len(LogOf(s)')].type = "notify" )
            => /\ now' <= lastNotifyAt'[s] + config'[s].debounce
               /\ \E t \in timers' :
                    t.owner = s /\ t.at = lastNotifyAt'[s] + config'[s].debounce]_vars

C8_Witness ==
  \E s \in Stores :
    /\ DebouncedStore(s)
    /\ [i \in DOMAIN log |-> log[i].type] = <<"notify", "notify", "notify", "write">>
    /\ lastNotifyAt[s] = 2
    /\ now = lastNotifyAt[s] + DebounceMs
    /\ \A i \in DOMAIN log : log[i].store = s

\* C9: a debounced save writes the serialization of the state as it is when
\* the timer callback runs, so every mutation made between the last trigger
\* and the firing is in the written record.
C9_SavesStateAtFiring ==
  [][\A s \in Stores :
       DebouncedStore(s) /\ WriteStep(s) =>
         /\ lastWrite'.value = serialize(config[s].serializer, [count |-> count[s]])
         /\ lastWrite'.key = config[s].key
         /\ lastWrite'.storage = config[s].storage
         /\ storageData'[config[s].storage][config[s].key] = lastWrite'.value]_vars

C9_Witness ==
  \E s \in Stores :
    /\ DebouncedStore(s)
    /\ log # <<>>
    /\ log[Len(log)] = Written(s)
    /\ lastWrite.value = JSONstringify([count |-> count[s]])
    /\ count[s] # seenAtNotify[s]
    /\ ~queued[s]

\* C10: with debounce 0 every change notification of a live persisted store
\* gives exactly one write, done inside the notification callback, and no
\* timer is ever created for the attachment.
C10_ImmediateSave ==
  \A s \in Stores :
    Attached(s) /\ config[s].debounce = 0 =>
      /\ \A i \in DOMAIN log :
           log[i].type = "notify" /\ log[i].store = s =>
             /\ i < Len(log)
             /\ log[i + 1].type = "write" /\ log[i + 1].store = s
      /\ \A i \in DOMAIN log :
           log[i].type = "write" /\ log[i].store = s =>
             /\ i > 1
             /\ log[i - 1].type = "notify" /\ log[i - 1].store = s
      /\ timeout[s] = NoTimeout
      /\ \A t \in timers : t.owner # s
      /\ nextTimerId = 1 \/ \E o \in Stores \ {s} : DebouncedStore(o)

C10_Witness ==
  \E s \in Stores :
    /\ Attached(s) /\ config[s].debounce = 0
    /\ globalOptions.debounce = DebounceMs
    /\ Cardinality(WritesOf(s)) = MaxEvents
    /\ Cardinality(NotifiesOf(s)) = MaxEvents

\* store.$dispose() of s is called in this step
DisposeStep(s) == disposeCalls'[s] # disposeCalls[s]

\* a timer of the attachment of s is pending
Pending(s) == \E t \in timers : t.owner = s

\* C11: disposing a store while a debounced save is pending cancels that
\* save within the disposal; after the disposal no step writes for the
\* store, however much time passes.
C11_DisposeCancelsPendingSave ==
  [][\A s \in Stores :
       DebouncedStore(s) =>
         /\ DisposeStep(s) => ~Pending(s)' /\ timeout'[s] = NoTimeout
         /\ disposeCalls[s] > 0 =>
              /\ ~WriteStep(s)
              /\ ~Pending(s)'
              /\ storageData'[config[s].storage][config[s].key]
                   = storageData[config[s].storage][config[s].key]]_vars

C11_Witness ==
  \E s \in Stores :
    /\ DebouncedStore(s)
    /\ disposeCalls[s] > 0
    /\ \E i \in DOMAIN disposal[s] : disposal[s][i].ev = "clearTimeout"
    /\ LogOf(s) # <<>>
    /\ LogOf(s)[Len(LogOf(s))].type = "notify"
    /\ now > lastNotifyAt[s] + config[s].debounce

\* C12: after a persisted store has been disposed, no later mutation or
\* change notification causes a write, a hook call or a handler call, be the
\* save immediate or debounced.
C12_NothingAfterDisposal ==
  [][\A s \in Stores :
       Attached(s) /\ disposeCalls[s] > 0 =>
         /\ ~subscribed[s] /\ ~queued'[s]
         /\ LogOf(s)' = LogOf(s)
         /\ trace'[s] = trace[s]
         /\ handled'[s] = handled[s]
         /\ ~WriteStep(s)]_vars

C12_Witness ==
  \E s \in Stores :
    /\ Attached(s) /\ config[s].debounce = 0
    /\ disposeCalls[s] > 0
    /\ WritesOf(s) # {}
    /\ lastWrite.value # serialize(config[s].serializer, [count |-> count[s]])
    /\ seenAtNotify[s] # count[s]
    /\ now > 0

\* the value the documented precedence gives one option: the store-level
\* value if given, else the global value if given, else the default
Precedence(storeValue, globalValue, absent, default) ==
  IF storeValue # absent THEN storeValue
  ELSE IF globalValue # absent THEN globalValue
  ELSE default

\* the callbacks of kind `name` the plugin called for s
CalledWith(s, name) == {trace[s][i].arg : i \in {j \in DOMAIN trace[s] : trace[s][j].ev = name}}

\* C13: storage, serializer, debounce, beforeRestore, afterRestore and
\* onRestoreError are each resolved on their own: the store-level value if
\* given, else the global value if given, else the default (localStorage,
\* JSON, 0, no hook, no handler).  A store-level debounce of 0 overrides a
\* global debounce, and a global hook or handler is never called when the
\* store supplies its own.
C13_OptionPrecedence ==
  \A s \in Stores :
    Attached(s) =>
      LET p == definition[s].persist
          g == globalOptions
          c == config[s]
      IN  /\ c.storage = Precedence(p.storage, g.storage, Absent, "localStorage")
          /\ c.serializer = Precedence(p.serializer, g.serializer, Absent, "JSON")
          /\ c.debounce = Precedence(p.debounce, g.debounce, AbsentN, 0)
          /\ c.beforeRestore = Precedence(p.beforeRestore, g.beforeRestore, Absent, Undefined)
          /\ c.afterRestore = Precedence(p.afterRestore, g.afterRestore, Absent, Undefined)
          /\ c.onRestoreError = Precedence(p.onRestoreError, g.onRestoreError, Absent, Undefined)
          /\ p.debounce = 0 => c.debounce = 0
          /\ CalledWith(s, "beforeRestore") =
               {Precedence(p.beforeRestore, g.beforeRestore, Absent, Undefined)} \ {Undefined}
          /\ CalledWith(s, "afterRestore") \subseteq
               {Precedence(p.afterRestore, g.afterRestore, Absent, Undefined)}
          /\ CalledWith(s, "onRestoreError") \subseteq
               {Precedence(p.onRestoreError, g.onRestoreError, Absent, Undefined)}
          /\ found[s] = storageData[Precedence(p.storage, g.storage, Absent, "localStorage")][c.key]
          /\ Called(s, "$restoreState") =>
               count[s] = deserialize(Precedence(p.serializer, g.serializer, Absent, "JSON"),
                                      found[s]).data.count

C13_Witness ==
  \E s \in Stores :
    /\ Attached(s)
    /\ globalOptions.debounce = DebounceMs /\ definition[s].persist.debounce = 0
    /\ globalOptions.storage = "mockStorage"
    /\ definition[s].persist.storage = "customStorage"
    /\ globalOptions.serializer = "custom" /\ definition[s].persist.serializer = Absent
    /\ globalOptions.beforeRestore = "global hook"
    /\ definition[s].persist.beforeRestore = "store hook"
    /\ globalOptions.afterRestore = "global hook"
    /\ definition[s].persist.afterRestore = Absent
    /\ EventNames(RestoreCalls(s)) =
         <<"beforeRestore", "getItem", "deserialize", "$restoreState", "afterRestore">>
    /\ CalledWith(s, "beforeRestore") = {"store hook"}
    /\ CalledWith(s, "afterRestore") = {"global hook"}
    /\ count[s] = 2

\* the key the documentation gives the attachment of s: the store-level key
\* if given, else the configured makeKey (id) => `app-${id}` on the store id,
\* else "pinia-" and the store id
DocumentedKey(s) ==
  IF definition[s].persist.key # Absent THEN definition[s].persist.key
  ELSE IF globalOptions.makeKey # Absent THEN "app-" \o s
  ELSE "pinia-" \o s

\* C14: the key of an attachment is the store-level key if given, else the
\* global makeKey applied to the store id, else "pinia-" and the store id;
\* it is fixed when the plugin attaches, and the restore read and every
\* later write use exactly this key.
C14_KeyResolution ==
  [][\A s \in Stores :
       /\ AttachStep(s) /\ Attached(s)' =>
            /\ config'[s].key = DocumentedKey(s)'
            /\ ArgOf(s, "getItem")' = DocumentedKey(s)'
            /\ found'[s] = storageData[config'[s].storage][DocumentedKey(s)']
       /\ Attached(s) =>
            /\ config'[s].key = config[s].key
            /\ config[s].key = DocumentedKey(s)
            /\ WriteStep(s) =>
                 /\ lastWrite'.key = DocumentedKey(s)
                 /\ storageData' =
                      [storageData EXCEPT ![config[s].storage][DocumentedKey(s)] =
                                            lastWrite'.value]]_vars

C14_Witness ==
  \E s \in Stores :
    /\ Attached(s)
    /\ globalOptions.makeKey # Absent /\ definition[s].persist.key = Absent
    /\ Called(s, "makeKey")
    /\ config[s].key = "app-" \o s
    /\ found[s] = Null
    /\ storageData["mockStorage"]["pinia-" \o s] = JSONstringify([count |-> 1])
    /\ Cardinality(WritesOf(s)) > 1
    /\ lastWrite.key = "app-" \o s
    /\ storageData["mockStorage"]["app-" \o s] = JSONstringify([count |-> count[s]])

\* C15: a save replaces the whole record at the key of the attachment with
\* the serialization of the current state and leaves every other key of
\* every backing store as it was; so with several persisted stores on one
\* backing store a mutation of one store changes only the record of that
\* store.
C15_SaveFrame ==
  [][\A s \in Stores :
       /\ ~plugin \/ storageData' = storageData \/ \E o \in Stores : WriteStep(o)
       /\ Attached(s) =>
            /\ \/ WriteStep(s)
               \/ storageData'[config[s].storage][config[s].key]
                    = storageData[config[s].storage][config[s].key]
            /\ WriteStep(s) =>
                 /\ storageData'[config[s].storage][config[s].key]
                      = serialize(config[s].serializer, [count |-> count[s]])
                 /\ \A st \in Storages, k \in Keys :
                      \/ <<st, k>> = <<config[s].storage, config[s].key>>
                      \/ storageData'[st][k] = storageData[st][k]]_vars

C15_Witness ==
  /\ \A s \in Stores : Attached(s) /\ config[s].storage = "mockStorage"
  /\ found["b"] = JSONstringify([count |-> 1])
  /\ count["a"] = 2 /\ count["b"] = 1
  /\ WritesOf("a") # {} /\ WritesOf("b") # {}
  /\ log[Len(log)] = Written("a")
  /\ storageData["mockStorage"]["pinia-a"] = JSONstringify([count |-> 2])
  /\ storageData["mockStorage"]["pinia-b"] = JSONstringify([count |-> 1])

\* C16: whenever onRestoreError is called its argument is an Error: an Error
\* thrown during restore is passed as it is, anything else thrown is wrapped
\* into a new Error whose message is its string form.
C16_HandlerArgumentIsError ==
  [][\A s \in Stores :
       /\ handled'[s] # handled[s] => AttachStep(s)
       /\ AttachStep(s) =>
            /\ Len(handled'[s]) = Len(SelectSeq(trace'[s], LAMBDA e : e.ev = "onRestoreError"))
            /\ \A i \in DOMAIN handled'[s] :
                 /\ handled'[s][i].isError
                 /\ BadRecord(s)'
                 /\ Parsed(s)'.error.isError => handled'[s][i] = Parsed(s)'.error
                 /\ ~Parsed(s)'.error.isError =>
                      handled'[s][i] = ErrorObj(Parsed(s)'.error.message)]_vars

C16_Witness ==
  \E s \in Stores :
    /\ BadRecord(s)
    /\ Parsed(s).error = NonError("string error")
    /\ handled[s] = <<ErrorObj("string error")>>
    /\ handled[s][1] # Parsed(s).error

\* C17: a store defined with persist: true is attached exactly as the same
\* store defined with persist: {} is: same closure, same calls, same
\* listener and disposal wrapper, from the global options and the defaults
\* only; the steps after attachment depend on nothing else of the
\* definition.
C17_TrueLikeEmptyObject ==
  [][\A s \in Stores :
       AttachStep(s) /\ definition'[s].persist = PersistTrue =>
         LET r == Plugin(globalOptions, s, [definition'[s] EXCEPT !.persist = PersistEmpty],
                         storageData, count[s])
             g == globalOptions
         IN  /\ config'[s] = r.config
             /\ trace'[s] = r.trace
             /\ handled'[s] = r.handled
             /\ thrown'[s] = r.thrown
             /\ count'[s] = r.count
             /\ subscribed'[s] = r.subscribed
             /\ wrapped'[s] = r.wrapped
             /\ Attached(s)' =>
                  /\ subscribed'[s] /\ wrapped'[s]
                  /\ config'[s].key = "pinia-" \o s
                  /\ config'[s].storage = g.storage
                  /\ config'[s].serializer = Precedence(Absent, g.serializer, Absent, "JSON")
                  /\ config'[s].debounce = Precedence(AbsentN, g.debounce, AbsentN, 0)
                  /\ CalledWith(s, "beforeRestore")' = {g.beforeRestore} \ {Absent}
                  /\ CalledWith(s, "afterRestore")' \subseteq {g.afterRestore} \ {Absent}
                  /\ CalledWith(s, "onRestoreError")' \subseteq {g.onRestoreError} \ {Absent}]_vars

C17_Witness ==
  \E s \in Stores :
    /\ Attached(s) /\ definition[s].persist = PersistTrue
    /\ globalOptions.debounce = DebounceMs
    /\ CalledWith(s, "afterRestore") = {"global hook"}
    /\ count[s] = 2
    /\ lastWrite.value = JSONstringify([count |-> 2])
    /\ disposeCalls[s] > 0

\* C18: the $dispose the plugin installs makes, in this order, the call that
\* removes the change listener, the cancellation of a pending scheduled
\* save, and the call of the original $dispose, which is made exactly once
\* per call and on the store.
C18_DisposalOrder ==
  [][\A s \in Stores :
       Attached(s) /\ DisposeStep(s) =>
         LET d == disposal'[s]
             names == EventNames(d)
         IN  /\ Len(d) >= 2
             /\ names[1] = "unsubscribe"
             /\ d[Len(d)] = Ev("originalDispose", s)
             /\ Cardinality({i \in DOMAIN d : names[i] = "originalDispose"}) = 1
             /\ disposeCalls'[s] = disposeCalls[s] + 1
             /\ Pending(s) =>
                  \E i \in DOMAIN d : names[i] = "clearTimeout" /\ 1 < i /\ i < Len(d)
             /\ ~subscribed'[s]
             /\ ~Pending(s)']_vars

C18_Witness ==
  \E s \in Stores :
    /\ Attached(s)
    /\ EventNames(disposal[s]) =
         <<"unsubscribe", "cleanupDebounce", "clearTimeout", "originalDispose">>
    /\ disposeCalls[s] = 1
    /\ timers = {} /\ nextTimerId > 1
    /\ WritesOf(s) = {}

\* the step is a call of mapper.$restoreState, with argument call'.data
RestoreStep == call'.op = "$restoreState"

\* the content of the object a cell refers to, EmptyObj for a number
ContentOf(cell, h) == IF cell.val.t = "obj" THEN h[cell.val.v] ELSE EmptyObj

\* C19: $restoreState(data) of the mapper changes only the fields that are
\* keys of data; every other field keeps its cell, its value and the
\* content of its object.
C19_RestoreSkipsMissingKeys ==
  [][RestoreStep =>
       \A k \in Fields :
         call'.data[k] = NotInData =>
           /\ state'[k] = state[k]
           /\ ContentOf(state[k], heap)' = ContentOf(state[k], heap)]_vars

C19_Witness ==
  /\ call.op = "$restoreState"
  /\ call.data["count"] = DataPrim(MaxProp)
  /\ call.data["items"] = NotInData
  /\ call.data["user"] = NotInData
  /\ state["count"].val = Prim(MaxProp)
  /\ state["items"].val = ObjRef(InitSlot("items"))
  /\ heap[InitSlot("items")] = [EmptyObj EXCEPT !["name"] = 1]
  /\ heap[InitSlot("user")] = [name |-> 1, age |-> 0]

\* C20: after $restoreState(data) a ref that is a key of data holds the
\* value data has for it; a reactive object that is a key of data is the
\* same object as before, each property of data's value has that value on
\* it, and each other property of it is as before.
C20_RestoreByKind ==
  [][RestoreStep =>
       \A k \in Fields :
         call'.data[k] # NotInData =>
           /\ KindOf[k] = "ref" =>
                /\ call'.data[k].t = "prim" => state'[k].val = Prim(call'.data[k].v)
                /\ call'.data[k].t = "obj" =>
                     /\ state'[k].val.t = "obj"
                     /\ heap'[state'[k].val.v] = call'.data[k].o
           /\ KindOf[k] = "reactive" =>
                /\ state'[k] = state[k]
                /\ \A p \in PropNames :
                     heap'[state[k].val.v][p] =
                       IF call'.data[k].o[p] # NoProp
                         THEN call'.data[k].o[p]
                         ELSE heap[state[k].val.v][p]]_vars

C20_Witness ==
  /\ call.op = "$restoreState"
  /\ call.data["count"] = DataPrim(MaxProp)
  /\ call.data["items"] = DataObj([EmptyObj EXCEPT !["name"] = MaxProp])
  /\ call.data["user"] = DataObj([EmptyObj EXCEPT !["name"] = 1])
  /\ state["count"].val = Prim(MaxProp)
  /\ state["items"].val = ObjRef(DataSlot("items"))
  /\ heap[DataSlot("items")] = [EmptyObj EXCEPT !["name"] = MaxProp]
  /\ state["user"].val = ObjRef(InitSlot("user"))
  /\ heap[InitSlot("user")] = [name |-> 1, age |-> 0]

\* the step is a call of mapper.$reset
ResetStep == call'.op = "$reset"

\* the default given for a field when the mapper was created, as a plain value
GivenDefault(k) == PlainOf(Defaults[k], Heap(EmptyObj, EmptyObj, EmptyObj))

\* C21: after every $reset(), whatever restores, resets and changes made in
\* place came before, each ref and each reactive object has the value that
\* was given as its default when the mapper was created.
C21_ResetRestoresDefaults ==
  [][ResetStep =>
       \A k \in Fields :
         KindOf[k] \in {"ref", "reactive"} =>
           PlainOf(state'[k].val, heap') = GivenDefault(k)]_vars

\* C22: $restoreState and $reset leave a field that is neither a ref nor a
\* reactive object as it was, its cell and the content of its object, also
\* when data has a value for it, and still update the ref `count`.
C22_PlainFieldUntouched ==
  [][RestoreStep \/ ResetStep =>
       /\ \A k \in Fields :
            KindOf[k] = "plain" =>
              /\ state'[k] = state[k]
              /\ ContentOf(state[k], heap)' = ContentOf(state[k], heap)
       /\ RestoreStep /\ call'.data["count"] # NotInData =>
            state'["count"].val = Prim(call'.data["count"].v)
       /\ ResetStep => state'["count"].val = Prim(0)]_vars

C22_Witness ==
  /\ call.op = "$restoreState"
  /\ call.data["count"] = DataPrim(MaxProp)
  /\ call.data["plain"] = DataObj([EmptyObj EXCEPT !["age"] = MaxProp])
  /\ state["count"].val = Prim(MaxProp)
  /\ state["plain"].val = ObjRef(InitSlot("plain"))
  /\ heap[InitSlot("plain")] = [EmptyObj EXCEPT !["name"] = MaxProp]
  /\ heap[DefaultSlot("plain")] # heap[InitSlot("plain")]

\* the step is a call of mapper.$serializeState, returning call'.out
SerializeStep == call'.op = "$serializeState"

\* C23: $serializeState() returns a record with exactly the tracked fields
\* as keys, the value of each being the current plain value of the field
\* (the number, or the content of the object), and changes no field.
C23_SerializeSnapshot ==
  [][SerializeStep =>
       /\ \A k \in Fields :
            /\ call'.out[k] # NotInData
            /\ state[k].val.t = "prim" => call'.out[k] = DataPrim(state[k].val.v)
            /\ state[k].val.t = "obj" => call'.out[k] = DataObj(heap[state[k].val.v])
       /\ state' = state
       /\ heap' = heap
       /\ defaults' = defaults]_vars

C23_Witness ==
  /\ call.op = "$serializeState"
  /\ call.out["count"] = DataPrim(MaxProp)
  /\ call.out["items"] = DataObj([EmptyObj EXCEPT !["name"] = MaxProp])
  /\ call.out["user"] = DataObj([name |-> MaxProp, age |-> 0])
  /\ call.out["plain"] = DataObj([EmptyObj EXCEPT !["name"] = MaxProp])
  /\ state["user"].kind = "reactive"

\* C24: the plugin registers its listener and wraps $dispose only after
\* every call of the restore protocol, so when useStore returns no
\* notification caused by $restoreState is queued for the listener.
C24_SubscribedAfterRestore ==
  [][\A s \in Stores :
       AttachStep(s) /\ Attached(s)' =>
         /\ \A i \in DOMAIN trace'[s] :
              \A j \in DOMAIN trace'[s] :
                \/ trace'[s][i].ev \notin {"$subscribe", "wrap $dispose"}
                \/ trace'[s][j].ev \in {"makeKey", "$subscribe", "wrap $dispose"}
                \/ j < i
         /\ ~queued'[s]]_vars

\* C26: whenever getItem returns a string, the empty string included,
\* deserialize is called on it; the restore is skipped only for null.
C26_EmptyRecordIsDeserialized ==
  [][\A s \in Stores :
       AttachStep(s) /\ Attached(s)' /\ found'[s] # Null =>
         /\ Called(s, "deserialize")'
         /\ ArgOf(s, "deserialize")' = found'[s]]_vars

\* C25: when the plugin calls onRestoreError, $restoreState has not been
\* called, the state of the store is as it was before the restore, and
\* afterRestore has not been called, whichever step raised the error.
C25_HandlerBeforeAnyState ==
  [][\A s \in Stores :
       AttachStep(s) /\ Attached(s)' /\ Called(s, "onRestoreError")' =>
         /\ ~Called(s, "$restoreState")'
         /\ ~Called(s, "afterRestore")'
         /\ count'[s] = count[s]]_vars

\* C27: $dispose of a persisted store with no save pending, or called again
\* after an earlier call, writes nothing and leaves the store unsubscribed
\* with no timer; a later call finds nothing to release (no timer is
\* cleared, no listener removed) and the wrapper stays the one installed.
C27_DisposeIdempotent ==
  [][\A s \in Stores :
       DisposeStep(s) /\ Attached(s) =>
         /\ storageData' = storageData
         /\ log' = log
         /\ ~subscribed'[s] /\ ~Pending(s)' /\ ~queued'[s]
         /\ wrapped'[s] = wrapped[s]
         /\ Cardinality({i \in DOMAIN disposal'[s] :
                           disposal'[s][i].ev = "originalDispose"}) = 1
         /\ ~Pending(s) => timers' = timers
         /\ disposeCalls[s] > 0 =>
              /\ subscribed' = subscribed
              /\ timers' = timers
              /\ timeout' = timeout
              /\ \A i \in DOMAIN disposal'[s] : disposal'[s][i].ev # "clearTimeout"]_vars

C27_Witness ==
  \E s \in Stores :
    /\ DebouncedStore(s)
    /\ disposeCalls[s] >= 2
    /\ NotifiesOf(s) # {}
    /\ WritesOf(s) = {}
    /\ now > lastNotifyAt[s] + config[s].debounce
    /\ \A i \in DOMAIN disposal[s] : disposal[s][i].ev # "clearTimeout"
    /\ ~subscribed[s]

\* a change notification of store s is delivered in this step
NotifyStep(s) == Len(LogOf(s)') > Len(LogOf(s)) /\ LogOf(s)'[Len(LogOf(s)) + 1].type = "notify"

\* C30: a debounced store has at most one timer pending, the one `timeout`
\* names; a notification while a timer is pending removes that timer and
\* sets a new one; a write is done only by the timer `timeout` names, so
\* never by a timer that was cancelled.
C30_OnePendingSave ==
  [][\A s \in Stores :
       DebouncedStore(s) =>
         /\ Cardinality({t \in timers' : t.owner = s}) <= 1
         /\ \A t \in timers' : t.owner = s => t.id = timeout'[s]
         /\ NotifyStep(s) =>
              /\ \A t \in timers : t.owner = s => t \notin timers'
              /\ \E t \in timers' : t.owner = s /\ t.id = nextTimerId
         /\ WriteStep(s) =>
              \E t \in timers \ timers' : t.owner = s /\ t.id = timeout[s]]_vars

C30_Witness ==
  \E s \in Stores :
    /\ DebouncedStore(s)
    /\ Cardinality(NotifiesOf(s)) = 2
    /\ WritesOf(s) = {}
    /\ nextTimerId = 3
    /\ Cardinality({t \in timers : t.owner = s}) = 1
    /\ now > 0 /\ now < config[s].debounce

\* C28: for two persisted stores on one backing store, under every pair of
\* debounce settings, when a notification of one store is delivered before
\* a notification of the other, the write caused by the first is done
\* before the write caused by the second.
C28_WritesInNotificationOrder ==
  \A i \in DOMAIN log : \A j \in DOMAIN log : \A k \in DOMAIN log :
    \/ ~(i < j /\ j < k)
    \/ log[i].type # "notify" \/ log[j].type # "notify"
    \/ log[i].store = log[j].store
    \/ log[k] # Written(log[j].store)
    \/ \E m \in (i + 1) .. (k - 1) : log[m] = Written(log[i].store)

\* saveState of store s throws in this step
RaiseStep(s) ==
  /\ Len(log') > Len(log)
  /\ log'[Len(log')] = Raised(s)

\* the application assigns to a field of store s in this step
MutateStep(s) == status'[s] = status[s] /\ count'[s] # count[s]

\* C29: when a save throws, for every debounce setting, the error comes out
\* of the statement that changed the store: the step in which saveState
\* throws is the step of the mutation that triggered the save.
C29_SaveErrorReachesMutator ==
  [][\A s \in Stores : RaiseStep(s) => MutateStep(s)]_vars

\* a store-level value read as the claim reads it: undefined is as absent
Given(value, absent, undef) == IF value = undef THEN absent ELSE value

\* C31: a store-level option given as undefined resolves like an absent
\* one: to the global value when there is one, to the default only when
\* there is none.
C31_UndefinedLikeAbsent ==
  \A s \in Stores :
    Attached(s) =>
      LET p == definition[s].persist
          g == globalOptions
          c == config[s]
      IN  /\ c.storage = Precedence(Given(p.storage, Absent, Undefined),
                                    g.storage, Absent, "localStorage")
          /\ c.serializer = Precedence(Given(p.serializer, Absent, Undefined),
                                       g.serializer, Absent, "JSON")
          /\ c.debounce = Precedence(Given(p.debounce, AbsentN, UndefinedN),
                                     g.debounce, AbsentN, 0)
          /\ c.beforeRestore = Precedence(Given(p.beforeRestore, Absent, Undefined),
                                          g.beforeRestore, Absent, Undefined)
          /\ c.onRestoreError = Precedence(Given(p.onRestoreError, Absent, Undefined),
                                           g.onRestoreError, Absent, Undefined)

\* C32: when beforeRestore throws or storage.getItem throws, useStore
\* throws that error even with an onRestoreError handler configured; the
\* handler, deserialize, $restoreState and afterRestore are not called and
\* the state stays as it was.
C32_EarlyErrorsPropagate ==
  [][\A s \in Stores :
       AttachStep(s) /\ Attached(s)'
         /\ (config'[s].beforeRestore = ThrowingHook \/ config'[s].storage = DeniedStorage) =>
         /\ status'[s] = "threw"
         /\ thrown'[s] = IF config'[s].beforeRestore = ThrowingHook
                           THEN HookError ELSE StorageError
         /\ handled'[s] = <<>>
         /\ ~Called(s, "onRestoreError")'
         /\ ~Called(s, "deserialize")'
         /\ ~Called(s, "$restoreState")'
         /\ ~Called(s, "afterRestore")'
         /\ config'[s].beforeRestore = ThrowingHook => ~Called(s, "getItem")'
         /\ count'[s] = count[s]]_vars

C32_Witness ==
  \E s \in Stores :
    /\ Attached(s)
    /\ config[s].beforeRestore = ThrowingHook
    /\ config[s].onRestoreError # Undefined
    /\ found[s] = JSONstringify([count |-> 1])
    /\ status[s] = "threw"
    /\ thrown[s] = HookError
    /\ count[s] = InitialCount

\* C33: after useStore threw because the restore failed with no handler,
\* the plugin has no listener on the store and $dispose is the original
\* one, so no later step writes for the store.
C33_NoWiringAfterFailedAttach ==
  [][\A s \in Stores :
       Attached(s) /\ status[s] = "threw" /\ config[s].onRestoreError = Undefined =>
         /\ ~subscribed[s]
         /\ ~wrapped[s]
         /\ ~WriteStep(s)]_vars

\* the last notification of s was followed by a write, no save is pending
\* and the record at the key of s is what that last save wrote
Settled(s) ==
  /\ ~Pending(s)
  /\ LogOf(s) # <<>>
  /\ LogOf(s)[Len(LogOf(s))].type = "write"
  /\ lastWrite = SetItemCall(config[s], storageData[config[s].storage][config[s].key])

\* C34: for a persisted store that is never disposed and whose saves
\* succeed, after every change notification, the n-th as well as the first,
\* there comes a state in which no save is pending, a save was executed
\* after that notification and the record at the key is what it wrote.
C34_EventuallySaved ==
  \A s \in Stores : \A n \in 1 .. MaxEvents :
    (Attached(s) /\ Cardinality(NotifiesOf(s)) = n)
      ~> (Settled(s) /\ Cardinality(NotifiesOf(s)) >= n)

C34_Witness ==
  \E s \in Stores :
    /\ DebouncedStore(s)
    /\ Settled(s)
    /\ Cardinality(NotifiesOf(s)) = MaxEvents
    /\ Cardinality(WritesOf(s)) >= 2
    /\ now > MaxTime

\* the timers of the attachment of s
TimersOf(s) == {t \in timers : t.owner = s}

\* C35: with two persisted stores that both save debounced, a notification,
\* a timer firing or a disposal of one store leaves the other store's
\* pending timer, its `timeout`, its log and its record as they were.
C35_SchedulerPerAttachment ==
  [][\A s \in Stores : \A o \in Stores \ {s} :
       DebouncedStore(s) /\ DebouncedStore(o)
         /\ (NotifyStep(s) \/ WriteStep(s) \/ DisposeStep(s)) =>
         /\ TimersOf(o)' = TimersOf(o)
         /\ timeout'[o] = timeout[o]
         /\ LogOf(o)' = LogOf(o)
         /\ storageData'[config[o].storage][config[o].key]
              = storageData[config[o].storage][config[o].key]
         /\ subscribed'[o] = subscribed[o]]_vars

C35_Witness ==
  \E s \in Stores : \E o \in Stores \ {s} :
    /\ DebouncedStore(s) /\ DebouncedStore(o)
    /\ disposeCalls[s] > 0
    /\ \E i \in DOMAIN disposal[s] : disposal[s][i].ev = "clearTimeout"
    /\ NotifiesOf(s) # {} /\ WritesOf(s) = {}
    /\ Cardinality(NotifiesOf(o)) = 2
    /\ Pending(o)
    /\ WritesOf(o) # {}

\* C36: when serializer.serialize throws during a save, setItem is not
\* called and every record stays as it was; the store stays subscribed, so
\* every later notification runs a save again (at once, or by a new timer)
\* and a store with such a serializer never writes.
C36_FailedSaveWritesNothing ==
  [][\A s \in Stores :
       Attached(s) /\ config[s].serializer = "failing" =>
         /\ ~WriteStep(s)
         /\ RaiseStep(s) =>
              /\ storageData' = storageData
              /\ lastWrite' = lastWrite
              /\ subscribed'[s] = subscribed[s]
              /\ subscribed'[s]
         /\ NotifyStep(s) =>
              IF config[s].debounce = 0
                THEN RaiseStep(s)
                ELSE \E t \in timers' : t.owner = s /\ t.id = nextTimerId]_vars

C36_Witness ==
  \E s \in Stores :
    /\ Attached(s) /\ config[s].serializer = "failing"
    /\ Cardinality({i \in DOMAIN log : log[i] = Raised(s)}) = 2
    /\ storageData[config[s].storage][config[s].key] = JSONstringify([count |-> 1])
    /\ found[s] = JSONstringify([count |-> 1])
    /\ count[s] # 1
    /\ subscribed[s]

\* C37: $serializeState() called right after $restoreState(d), d having a
\* value for every field, returns a record equal to d; and
\* $restoreState of the record $serializeState() just returned leaves
\* every field, cell and content, unchanged.
C37_MapperRoundTrip ==
  [][/\ SerializeStep /\ call.op = "$restoreState"
          /\ (\A k \in Fields : call.data[k] # NotInData) =>
            call'.out = call.data
     /\ RestoreStep /\ call.op = "$serializeState" /\ call'.data = call.out =>
            /\ state' = state
            /\ \A k \in Fields : ContentOf(state[k], heap)' = ContentOf(state[k], heap)]_vars
====
